---- MODULE Spec2Model ----
(***************************************************************************)
(* The news monitor of HL0v/Desafio_itau_quant: NewsMonitor in             *)
(* src/stock_news_monitor.py and its older variant in src/backtest.py.     *)
(*                                                                         *)
(* One sequential thread runs start_monitoring: banner, one check_news     *)
(* cycle, then the loop of schedule.run_pending() and time.sleep(1).       *)
(* A cycle fetches each ticker in turn (fetch_news_for_ticker) and hands   *)
(* every returned article to process_article.                              *)
(*                                                                         *)
(* Environment: the NewsAPI call (returns a response or raises, and takes  *)
(* time), the AI-analysis call inside process_article's try block (returns *)
(* or raises), and the user's Ctrl+C (KeyboardInterrupt), which can arrive *)
(* at any control point after start_monitoring has begun.                  *)
(*                                                                         *)
(* Time is counted in seconds; it advances only in the blocking calls      *)
(* (the API request and time.sleep(1)).                                    *)
(*                                                                         *)
(* Strings are sequences of one-character strings, so that str.lower()     *)
(* and the substring test `in` are computed, not assumed.                  *)
(***************************************************************************)
EXTENDS Integers, Sequences, FiniteSets, TLC

(***************************************************************************)
(* Bounds of the model.                                                    *)
(***************************************************************************)
\* longest "articles" list of one API response
MaxResp == 2
\* longest ticker list given on backtest.py's command line
MaxTickers == 2
\* the clock stops the model at this second
MaxTime == 4
\* longest duration of one API request, in seconds
MaxCallTime == 2
\* config.refresh_interval (--interval), in seconds
refresh_interval == 2
\* longest article text of the keyword-matcher specification
MaxLen == 4

\* longest description of the description specification, beyond desc[:200]
MaxOver == 50

\* desc[:200] in process_article
DescLimit == 200

(***************************************************************************)
(* Strings.                                                                *)
(***************************************************************************)
Alphabet == {"a", "b", "B", " "}

\* str.lower(), one character
LowerChar(c) == IF c = "B" THEN "b" ELSE c

\* str.lower()
Lower(s) == [i \in 1..Len(s) |-> LowerChar(s[i])]

\* Python's `needle in hay` on strings
Contains(needle, hay) ==
    \E i \in 0..(Len(hay) - Len(needle)) :
        SubSeq(hay, i + 1, i + Len(needle)) = needle

\* config.price_moving_keywords: an ordered list; some entries are
\* capitalised ('Guerra', 'China'), some contain a space, and one
\* lower-cased entry is a substring of another ('Guerra' / 'guerra comercial')
price_moving_keywords == << <<"a", "b">>, <<"B">>, <<"b", " ", "a">> >>

RECURSIVE ExtractFrom(_, _, _)
\* the for loop of _extract_matched_keywords, from keyword k on
ExtractFrom(k, text_lower, matched) ==
    IF k > Len(price_moving_keywords) THEN matched
    ELSE LET keyword == price_moving_keywords[k] IN
         ExtractFrom(k + 1, text_lower,
                     IF Contains(Lower(keyword), text_lower)
                     THEN Append(matched, keyword)
                     ELSE matched)

\* the same loop with `keyword in text_lower` (the keyword not lower-cased)
ExtractCaseSensitive(article_text) ==
    LET RECURSIVE Go(_, _)
        Go(k, matched) ==
            IF k > Len(price_moving_keywords) THEN matched
            ELSE Go(k + 1,
                    IF Contains(price_moving_keywords[k], Lower(article_text))
                    THEN Append(matched, price_moving_keywords[k])
                    ELSE matched)
    IN Go(1, <<>>)

\* NewsMonitor._extract_matched_keywords
extract_matched_keywords(article_text) ==
    ExtractFrom(1, Lower(article_text), <<>>)

(***************************************************************************)
(* Data.                                                                   *)
(***************************************************************************)
URLs == {"u1", "u2"}
\* a raw article without the 'url' key: article['url'] raises KeyError
NoKey == "<no url key>"

\* raw articles of an API response: 'url', 'title', 'description'
TitleMatching == <<"a", "B">>
TitlePlain == <<"a">>
RawArticles ==
    [url : URLs, title : {TitleMatching, TitlePlain}, description : {<<>>}]
    \cup [url : URLs, title : {TitlePlain}, description : {<<"b">>}]
    \cup {[url |-> NoKey, title |-> TitlePlain, description |-> <<>>]}

\* the 'articles' list of a response
Responses == UNION {[1..n -> RawArticles] : n \in 0..MaxResp}

\* ticker symbols and company names, character by character
ADM == <<"A", "D", "M">>
B3 == <<"B", "3">>
Brasil == <<"B", "r", "a", "s", "i", "l">>
ArcherDanielsMidland ==
    <<"A", "r", "c", "h", "e", "r", " ", "D", "a", "n", "i", "e", "l", "s",
      " ", "M", "i", "d", "l", "a", "n", "d">>
BolsaB3 == <<"B", "o", "l", "s", "a", " ", "B", "3">>
ComercioDeSoja ==
    <<"c", "o", "m", "e", "r", "c", "i", "o", " ", "d", "e", " ", "s", "o", "j", "a">>

\* tickers on backtest.py's command line (nargs='+', upper-cased)
CliTickers == UNION {[1..n -> {ADM, B3}] : n \in 1..MaxTickers}

\* list(self.ticker_to_company.keys()) in stock_news_monitor.py
MappingTickers == <<Brasil>>

\* f"{title} {description}"
ArticleText(a) == a.title \o <<" ">> \o a.description

\* NewsArticle(...) as stock_news_monitor.py builds it, matched keywords set
NewsArticle(a, ticker, matched) ==
    [title |-> a.title, url |-> a.url, description |-> a.description,
     matched_keywords |-> matched, ticker |-> ticker]

UrlsOf(seq) == [i \in 1..Len(seq) |-> seq[i].url]
Range(seq) == {seq[i] : i \in 1..Len(seq)}

VARIABLES
    variant,            \* which file runs: "stock_news_monitor" or "backtest"
    tickers,            \* config.tickers
    processed_articles, \* self.processed_articles
    pc,                 \* control point of the thread
    in_try,             \* control is inside start_monitoring's try block
    ti,                 \* check_news: index of the ticker of the for loop
    resp,               \* fetch: the 'articles' list being scanned
    si,                 \* fetch: index of the raw article of the for loop
    news_articles,      \* fetch: the local list news_articles
    articles,           \* check_news: the list fetch returned
    pi,                 \* check_news: index of the article of the inner loop
    now,                \* the clock, in seconds
    next_run,           \* the scheduled job's next_run
    sink,               \* the lines written to the log sink
    outcome,            \* how the fetch of the current ticker ended
    seen_before,        \* processed_articles when the current fetch was called
    returned,           \* history: URLs returned by fetch_news_for_ticker
    handed,             \* history: calls of process_article
    fetched,            \* history: the fetches of the current cycle
    starts,             \* history: the start time of every cycle
    ended,              \* history: number of cycles that ran to their end
    interrupted,        \* history: a KeyboardInterrupt was delivered
    kw_text,            \* keyword matcher: the input text
    kw_matched,         \* keyword matcher: the result
    kw_done,            \* keyword matcher: the result is computed
    call_arg,           \* a function called on its own: the argument
    call_result,        \* a function called on its own: the result
    call_done,          \* a function called on its own: it has returned
    slept               \* history: time.sleep(1) was called since a cycle ended

prog == <<variant, tickers, processed_articles>>
ctl == <<pc, in_try, ti, pi>>
scan == <<resp, si, news_articles>>
clock == <<now, next_run>>
hist == <<returned, handed, fetched, starts, ended, interrupted>>
kw == <<kw_text, kw_matched, kw_done>>
call == <<call_arg, call_result, call_done>>
side == <<kw, call, slept>>
vars == <<prog, ctl, scan, articles, clock, sink, outcome, seen_before, hist, side>>

Line(kind, url, text) == [kind |-> kind, url |-> url, text |-> text]

\* NewsMonitor.__init__, and MonitorConfig before it
Init ==
    /\ variant \in {"stock_news_monitor", "backtest"}
    /\ tickers \in (IF variant = "backtest" THEN CliTickers ELSE {MappingTickers})
    /\ processed_articles = {}
    /\ pc = "start"
    /\ in_try = FALSE
    /\ ti = 1 /\ pi = 1 /\ si = 1
    /\ resp = <<>> /\ news_articles = <<>> /\ articles = <<>>
    /\ now = 0 /\ next_run = 0
    /\ sink = <<>>
    /\ outcome = "none"
    /\ seen_before = {}
    /\ returned = <<>> /\ handed = <<>> /\ fetched = <<>> /\ starts = <<>>
    /\ ended = 0
    /\ interrupted = FALSE
    /\ kw_text = <<>> /\ kw_matched = <<>> /\ kw_done = FALSE
    /\ call_arg = <<>> /\ call_result = <<>> /\ call_done = FALSE
    /\ slept = FALSE


(***************************************************************************)
(* start_monitoring, up to the initial check.                              *)
(***************************************************************************)
\* the banner, schedule.every(refresh_interval).seconds.do(check_news)
\* (the job's next_run is set from the clock), then the call of check_news
StartMonitoring ==
    /\ pc = "start"
    /\ sink' = Append(sink, Line("startup", "", <<>>))
    /\ next_run' = now + refresh_interval
    /\ pc' = "check_news"
    /\ UNCHANGED <<prog, in_try, ti, pi, scan, articles, now, outcome,
                   seen_before, hist, side>>

(***************************************************************************)
(* check_news and fetch_news_for_ticker.                                   *)
(***************************************************************************)
\* entry of check_news: the for loop starts at the first ticker
CheckNews ==
    /\ pc = "check_news"
    /\ ti' = 1
    /\ pc' = "fetch"
    /\ starts' = Append(starts, now)
    /\ fetched' = <<>>
    /\ UNCHANGED <<prog, in_try, pi, scan, articles, clock, sink, outcome,
                   seen_before, returned, handed, ended, interrupted, side>>

\* `except Exception` of fetch_news_for_ticker propagating instead of returning
ExceptEscapes(why) ==
    /\ pc' = "crashed"
    /\ outcome' = why
    /\ UNCHANGED <<articles, pi, returned>>

\* `except Exception as e: log; return []`, and check_news takes the list
ExceptReturnEmpty(why) ==
    /\ articles' = <<>>
    /\ pi' = 1
    /\ pc' = "process"
    /\ outcome' = why
    /\ UNCHANGED returned

\* newsapi.get_everything raises (network, auth, rate limit, bad payload)
ApiRaises ==
    /\ pc = "fetch"
    /\ \E d \in 0..MaxCallTime :
        /\ now + d <= MaxTime
        /\ now' = now + d
    /\ fetched' = Append(fetched, [ti |-> ti, api |-> "raise"])
    /\ seen_before' = processed_articles
    /\ ExceptReturnEmpty("api_raise")
    /\ UNCHANGED <<prog, in_try, ti, scan, next_run, sink, handed, starts,
                   ended, interrupted, side>>

\* newsapi.get_everything returns; the for loop over its 'articles' starts
ApiReturns ==
    /\ pc = "fetch"
    /\ \E d \in 0..MaxCallTime :
        /\ now + d <= MaxTime
        /\ now' = now + d
    /\ \E r \in Responses : resp' = r
    /\ si' = 1
    /\ news_articles' = <<>>
    /\ fetched' = Append(fetched, [ti |-> ti, api |-> "ok"])
    /\ seen_before' = processed_articles
    /\ outcome' = "scanning"
    /\ pc' = "scan"
    /\ UNCHANGED <<prog, in_try, ti, pi, articles, next_run, sink, returned,
                   handed, starts, ended, interrupted, side>>

\* a skip test that never skips
NeverProcessed(url) == FALSE

\* `if article['url'] in self.processed_articles: continue`
AlreadyProcessed(url) == url \in processed_articles

\* a filter that keeps every article
KeepAll(matched_keywords) == TRUE

\* `if matched_keywords:`
HasMatch(matched_keywords) == matched_keywords # <<>>

\* the set replaced by the one URL
OnlyProcessed(url) == {url}

\* self.processed_articles.add(article['url'])
MarkProcessed(url) == processed_articles \cup {url}

\* the new article put in front of the list
PrependArticle(list, article) == <<article>> \o list

\* news_articles.append(news_article)
AppendArticle(list, article) == Append(list, article)

\* one iteration of `for article in articles.get('articles', [])`
ScanArticle ==
    /\ pc = "scan"
    /\ si <= Len(resp)
    /\ LET article == resp[si] IN
         \/ \* article['url']: KeyError
            /\ article.url = NoKey
            /\ ExceptReturnEmpty("malformed")
            /\ UNCHANGED <<processed_articles, scan>>
         \/ \* already processed: continue
            /\ article.url # NoKey
            /\ AlreadyProcessed(article.url)
            /\ si' = si + 1
            /\ UNCHANGED <<processed_articles, resp, news_articles, articles,
                           pi, pc, outcome, returned>>
         \/ \* backtest.py: NewsArticle(..., source=..., description=...) on a
            \* dataclass that has neither field: TypeError
            /\ article.url # NoKey
            /\ ~AlreadyProcessed(article.url)
            /\ variant = "backtest"
            /\ ExceptReturnEmpty("type_error")
            /\ UNCHANGED <<processed_articles, scan>>
         \/ \* stock_news_monitor.py: build, match, keep or drop
            /\ article.url # NoKey
            /\ ~AlreadyProcessed(article.url)
            /\ variant = "stock_news_monitor"
            /\ LET matched_keywords ==
                       extract_matched_keywords(ArticleText(article))
                   news_article ==
                       NewsArticle(article, tickers[ti], matched_keywords)
               IN IF HasMatch(matched_keywords)
                  THEN /\ news_articles' =
                              AppendArticle(news_articles, news_article)
                       /\ processed_articles' = MarkProcessed(article.url)
                  ELSE UNCHANGED <<news_articles, processed_articles>>
            /\ si' = si + 1
            /\ UNCHANGED <<resp, articles, pi, pc, outcome, returned>>
    /\ UNCHANGED <<variant, tickers, in_try, ti, clock, sink, seen_before,
                   handed, fetched, starts, ended, interrupted, side>>

\* `return news_articles`, and check_news takes the list
FetchReturn ==
    /\ pc = "scan"
    /\ si > Len(resp)
    /\ articles' = news_articles
    /\ returned' = returned \o UrlsOf(news_articles)
    /\ pi' = 1
    /\ outcome' = "returned"
    /\ pc' = "process"
    /\ UNCHANGED <<prog, in_try, ti, scan, clock, sink, seen_before, handed,
                   fetched, starts, ended, interrupted, side>>

(***************************************************************************)
(* process_article.                                                        *)
(***************************************************************************)
\* the ellipsis already at len(desc) == 200
TruncatedAtLimit(desc) ==
    IF Len(desc) >= DescLimit
    THEN SubSeq(desc, 1, DescLimit) \o <<".", ".", ".">>
    ELSE desc

\* desc[:200] + "..." if len(desc) > 200 else desc
Truncated(desc) ==
    IF Len(desc) > DescLimit
    THEN SubSeq(desc, 1, DescLimit) \o <<".", ".", ".">>
    ELSE desc

\* the block of an article up to the AI call: header and fields, then the
\* description line `if article.description:`
BlockLines(article) ==
    <<Line("alert", article.url, article.title)>>
    \o (IF article.description # <<>>
        THEN <<Line("description", article.url, Truncated(article.description))>>
        ELSE <<>>)

\* an except branch that writes the summary line as well
AiLinesBoth(url, raised) ==
    IF raised
    THEN <<Line("ai_error", url, <<>>), Line("ai_summary", url, <<>>),
           Line("closing_separator", url, <<>>)>>
    ELSE <<Line("ai_summary", url, <<>>)>>

\* try: analyze_with_ai, write "AI Analysis: ..."
\* except Exception: log the error, write the closing separator
AiLines(url, raised) ==
    IF raised
    THEN <<Line("ai_error", url, <<>>), Line("closing_separator", url, <<>>)>>
    ELSE <<Line("ai_summary", url, <<>>)>>

\* process_article(article) for the next article of the inner for loop
ProcessArticle ==
    /\ pc = "process"
    /\ pi <= Len(articles)
    /\ \E raised \in BOOLEAN :
        /\ sink' = sink \o BlockLines(articles[pi])
                        \o AiLines(articles[pi].url, raised)
        /\ handed' = Append(handed, [url |-> articles[pi].url,
                                     ai_raised |-> raised])
    /\ pi' = pi + 1
    /\ UNCHANGED <<prog, pc, in_try, ti, scan, articles, clock, outcome,
                   seen_before, returned, fetched, starts, ended,
                   interrupted, side>>

\* the outer for loop of check_news moves to the next ticker
NextTicker ==
    /\ pc = "process"
    /\ pi > Len(articles)
    /\ ti < Len(tickers)
    /\ ti' = ti + 1
    /\ pc' = "fetch"
    /\ resp' = <<>> /\ si' = 1 /\ news_articles' = <<>>
    /\ articles' = <<>> /\ pi' = 1
    /\ outcome' = "none"
    /\ UNCHANGED <<prog, in_try, clock, sink, seen_before, hist, side>>

\* the locals of a cycle are gone when check_news returns
CycleLocalsCleared ==
    /\ resp' = <<>> /\ si' = 1 /\ news_articles' = <<>>
    /\ articles' = <<>> /\ pi' = 1 /\ ti' = 1
    /\ outcome' = "none"
    /\ seen_before' = {}

\* the initial check_news() returns; control enters `try: while True:`
InitialCheckDone ==
    /\ pc = "process"
    /\ pi > Len(articles)
    /\ ti = Len(tickers)
    /\ ~in_try
    /\ in_try' = TRUE
    /\ pc' = "run_pending"
    /\ ended' = ended + 1
    /\ CycleLocalsCleared
    /\ UNCHANGED <<prog, clock, sink, returned, handed, fetched, starts,
                   interrupted, kw, call>>
    /\ slept' = FALSE

\* the job re-scheduled from its planned time, and run_pending asked again
\* before any sleep
JobDoneFromPlanned ==
    /\ pc = "process"
    /\ pi > Len(articles)
    /\ ti = Len(tickers)
    /\ in_try
    /\ next_run' = next_run + refresh_interval
    /\ pc' = "run_pending"
    /\ ended' = ended + 1
    /\ resp' = <<>> /\ si' = 1 /\ news_articles' = <<>>
    /\ articles' = <<>> /\ pi' = 1 /\ ti' = 1
    /\ outcome' = "none"
    /\ seen_before' = {}
    /\ UNCHANGED <<prog, in_try, now, sink, returned, handed, fetched, starts,
                   interrupted, kw, call>>
    /\ slept' = FALSE

\* a scheduled check_news() returns to Job.run, which sets
\* next_run = now + period; run_pending returns and time.sleep(1) is next
JobDone ==
    /\ pc = "process"
    /\ pi > Len(articles)
    /\ ti = Len(tickers)
    /\ in_try
    /\ next_run' = now + refresh_interval
    /\ pc' = "sleep"
    /\ ended' = ended + 1
    /\ CycleLocalsCleared
    /\ UNCHANGED <<prog, in_try, now, sink, returned, handed, fetched, starts,
                   interrupted, kw, call>>
    /\ slept' = FALSE

(***************************************************************************)
(* The loop of start_monitoring.                                           *)
(***************************************************************************)
\* a job that is always due
AlwaysDue == TRUE

\* Job.should_run: datetime.now() >= self.next_run
should_run == now >= next_run

\* schedule.run_pending()
RunPending ==
    /\ pc = "run_pending"
    /\ pc' = IF should_run THEN "check_news" ELSE "sleep"
    /\ UNCHANGED <<prog, in_try, ti, pi, scan, articles, clock, sink, outcome,
                   seen_before, hist, side>>

\* a sleep during which the clock stands still
SleepTakesNoTime ==
    /\ pc = "sleep"
    /\ pc' = "run_pending"
    /\ UNCHANGED <<prog, in_try, ti, pi, scan, articles, clock, sink,
                   outcome, seen_before, hist, kw, call>>
    /\ slept' = TRUE

\* time.sleep(1)
Sleep ==
    /\ pc = "sleep"
    /\ now < MaxTime
    /\ now' = now + 1
    /\ pc' = "run_pending"
    /\ UNCHANGED <<prog, in_try, ti, pi, scan, articles, next_run, sink,
                   outcome, seen_before, hist, kw, call>>
    /\ slept' = TRUE

\* a Ctrl+C that only sets a flag, for the code to look at later
InterruptDeferred ==
    /\ pc \notin {"start", "stopped", "crashed", "escaped"}
    /\ ~interrupted
    /\ interrupted' = TRUE
    /\ UNCHANGED <<prog, ctl, scan, articles, clock, sink, outcome,
                   seen_before, returned, handed, fetched, starts, ended,
                   side>>

\* Ctrl+C. KeyboardInterrupt is no Exception: fetch_news_for_ticker and
\* process_article do not catch it. Inside start_monitoring's try block it
\* reaches `except KeyboardInterrupt` (shutdown banner, normal return);
\* before the try block (the initial check) it leaves start_monitoring.
Interrupt ==
    /\ pc \notin {"start", "stopped", "crashed", "escaped"}
    /\ interrupted' = TRUE
    /\ IF in_try
       THEN /\ sink' = Append(sink, Line("shutdown", "", <<>>))
            /\ pc' = "stopped"
       ELSE /\ pc' = "crashed"
            /\ UNCHANGED sink
    /\ UNCHANGED <<prog, in_try, ti, pi, scan, articles, clock, outcome,
                   seen_before, returned, handed, fetched, starts, ended, side>>

\* an exception caught where KeyboardInterrupt is caught
RaiseCaughtByLoop ==
    /\ \/ pc = "check_news"
       \/ pc = "process"
    /\ IF in_try
       THEN /\ sink' = Append(sink, Line("shutdown", "", <<>>))
            /\ pc' = "stopped"
       ELSE /\ pc' = "escaped"
            /\ UNCHANGED sink
    /\ UNCHANGED <<prog, in_try, ti, pi, scan, articles, clock, outcome,
                   seen_before, hist, side>>

\* An exception (an Exception, not KeyboardInterrupt) raised by a statement
\* of check_news or process_article outside the two try blocks: at the
\* entry of check_news, between articles, or while process_article writes
\* the block of an article, of which a part may be written. Neither
\* check_news nor schedule.run_pending() catches it, and
\* `except KeyboardInterrupt` does not match: it leaves start_monitoring.
UnguardedRaise ==
    /\ \/ /\ pc = "check_news"
          /\ UNCHANGED sink
       \/ /\ pc = "process"
          /\ pi > Len(articles)
          /\ UNCHANGED sink
       \/ /\ pc = "process"
          /\ pi <= Len(articles)
          /\ \E n \in 0..Len(BlockLines(articles[pi])) :
                 sink' = sink \o SubSeq(BlockLines(articles[pi]), 1, n)
    /\ pc' = "escaped"
    /\ UNCHANGED <<prog, in_try, ti, pi, scan, articles, clock, outcome,
                   seen_before, hist, side>>

Next ==
    \/ StartMonitoring
    \/ CheckNews
    \/ ApiRaises
    \/ ApiReturns
    \/ ScanArticle
    \/ FetchReturn
    \/ ProcessArticle
    \/ NextTicker
    \/ InitialCheckDone
    \/ JobDone
    \/ RunPending
    \/ Sleep
    \/ Interrupt

Spec == Init /\ [][Next]_vars

\* `while True` has no last iteration: the clock and the log grow without
\* limit. What the loop does next depends on the clock through
\* next_run - now only, and on nothing that was logged. When the clock
\* reaches MaxTime between two iterations, its origin is moved to now and
\* the histories start afresh; the program's own state is left as it is.
Rebase ==
    /\ pc = "sleep"
    /\ now = MaxTime
    /\ now' = 0
    /\ next_run' = next_run - now
    /\ sink' = <<>>
    /\ returned' = <<>> /\ handed' = <<>> /\ starts' = <<>>
    /\ ended' = 0
    /\ UNCHANGED <<prog, ctl, scan, articles, outcome, seen_before, fetched,
                   interrupted, side>>

\* the steps of the thread itself: every action but Ctrl+C
Program ==
    \/ StartMonitoring
    \/ CheckNews
    \/ ApiRaises
    \/ ApiReturns
    \/ ScanArticle
    \/ FetchReturn
    \/ ProcessArticle
    \/ NextTicker
    \/ InitialCheckDone
    \/ JobDone
    \/ RunPending
    \/ Sleep

NextLive == Next \/ Rebase

\* The monitor running for ever. The thread takes its next step whenever it
\* has one: an API call returns or raises, a sleep ends. Ctrl+C may come or
\* not.
SpecLive == Init /\ [][NextLive]_vars /\ WF_vars(Program \/ Rebase)

\* the monitor with exceptions outside the two guarded scopes
NextFault == Next \/ UnguardedRaise

SpecFault == Init /\ [][NextFault]_vars


(***************************************************************************)
(* _build_ticker_mapping and _build_search_query.                          *)
(***************************************************************************)
\* common_mappings.get(ticker, ticker) of backtest.py (two of its entries)
CommonMapping(ticker) ==
    IF ticker = ADM THEN ArcherDanielsMidland
    ELSE IF ticker = B3 THEN BolsaB3
    ELSE ticker

\* self.ticker_to_company: backtest.py maps every configured ticker,
\* stock_news_monitor.py has the one literal entry
ticker_to_company ==
    IF variant = "backtest"
    THEN [t \in Range(tickers) |-> CommonMapping(t)]
    ELSE [t \in {Brasil} |-> ComercioDeSoja]

\* f'"{s}"'
Quoted(s) == <<"\"">> \o s \o <<"\"">>

RECURSIVE Join(_, _)
\* sep.join(list)
Join(sep, list) ==
    IF list = <<>> THEN <<>>
    ELSE IF Len(list) = 1 THEN list[1]
    ELSE list[1] \o sep \o Join(sep, Tail(list))

OrSep == <<" ", "O", "R", " ">>

\* the query built with the ticker in place of the company name
BuildQueryTickerOnly(ticker) ==
    LET base_query == Quoted(ticker) \o OrSep \o Quoted(ticker)
        keyword_query ==
            Join(OrSep, [k \in 1..Len(price_moving_keywords) |->
                            Quoted(price_moving_keywords[k])])
    IN <<"(">> \o base_query \o <<")", " ", "A", "N", "D", " ", "(">>
       \o keyword_query \o <<")">>

\* NewsMonitor._build_search_query
build_search_query(ticker) ==
    LET company_name ==
            IF ticker \in DOMAIN ticker_to_company
            THEN ticker_to_company[ticker]
            ELSE ticker
        base_query == Quoted(ticker) \o OrSep \o Quoted(company_name)
        keyword_query ==
            Join(OrSep, [k \in 1..Len(price_moving_keywords) |->
                            Quoted(price_moving_keywords[k])])
    IN <<"(">> \o base_query \o <<")", " ", "A", "N", "D", " ", "(">>
       \o keyword_query \o <<")">>

(***************************************************************************)
(* The keyword matcher on its own: every text of up to MaxLen characters.  *)
(***************************************************************************)
Texts == UNION {[1..n -> Alphabet] : n \in 0..MaxLen}

InitKw ==
    /\ variant = "stock_news_monitor"
    /\ tickers = MappingTickers
    /\ processed_articles = {}
    /\ pc = "matcher"
    /\ in_try = FALSE
    /\ ti = 1 /\ pi = 1 /\ si = 1
    /\ resp = <<>> /\ news_articles = <<>> /\ articles = <<>>
    /\ now = 0 /\ next_run = 0
    /\ sink = <<>>
    /\ outcome = "none"
    /\ seen_before = {}
    /\ returned = <<>> /\ handed = <<>> /\ fetched = <<>> /\ starts = <<>>
    /\ ended = 0
    /\ interrupted = FALSE
    /\ kw_text \in Texts
    /\ kw_matched = <<>>
    /\ kw_done = FALSE
    /\ call_arg = <<>> /\ call_result = <<>> /\ call_done = FALSE
    /\ slept = FALSE

\* a call of _extract_matched_keywords(kw_text)
ExtractMatched ==
    /\ pc = "matcher"
    /\ ~kw_done
    /\ kw_matched' = extract_matched_keywords(kw_text)
    /\ kw_done' = TRUE
    /\ UNCHANGED <<prog, ctl, scan, articles, clock, sink, outcome,
                   seen_before, hist, kw_text, call, slept>>

NextKw == ExtractMatched

SpecKw == InitKw /\ [][NextKw]_vars

(***************************************************************************)
(* The query builder on its own: every variant and ticker list, called     *)
(* with a configured ticker or any short string.                           *)
(***************************************************************************)
\* everything but variant, tickers, pc and the function called on its
\* own is as __init__ leaves it
NotStarted ==
    /\ processed_articles = {}
    /\ in_try = FALSE
    /\ ti = 1 /\ pi = 1 /\ si = 1
    /\ resp = <<>> /\ news_articles = <<>> /\ articles = <<>>
    /\ now = 0 /\ next_run = 0
    /\ sink = <<>>
    /\ outcome = "none"
    /\ seen_before = {}
    /\ returned = <<>> /\ handed = <<>> /\ fetched = <<>> /\ starts = <<>>
    /\ ended = 0
    /\ interrupted = FALSE
    /\ slept = FALSE
    /\ kw_text = <<>> /\ kw_matched = <<>> /\ kw_done = FALSE

QueryTickers == Texts \cup {ADM, B3, Brasil}

InitQuery ==
    /\ variant \in {"stock_news_monitor", "backtest"}
    /\ tickers \in (IF variant = "backtest" THEN CliTickers ELSE {MappingTickers})
    /\ pc = "query"
    /\ NotStarted
    /\ call_arg \in QueryTickers
    /\ call_result = <<>>
    /\ call_done = FALSE

\* a call of _build_search_query(call_arg)
BuildSearchQuery ==
    /\ pc = "query"
    /\ ~call_done
    /\ call_result' = build_search_query(call_arg)
    /\ call_done' = TRUE
    /\ UNCHANGED <<prog, ctl, scan, articles, clock, sink, outcome,
                   seen_before, hist, kw, call_arg, slept>>

NextQuery == BuildSearchQuery

SpecQuery == InitQuery /\ [][NextQuery]_vars

(***************************************************************************)
(* The article block on its own: descriptions of every length up to        *)
(* DescLimit + MaxOver, all "a" or with one "b" next to the cut.           *)
(***************************************************************************)
Descriptions ==
    {[i \in 1..n |-> IF i = p THEN "b" ELSE "a"] :
        n \in 0..(DescLimit + MaxOver),
        p \in {0, DescLimit, DescLimit + 1}}

InitDesc ==
    /\ variant = "stock_news_monitor"
    /\ tickers = MappingTickers
    /\ pc = "describe"
    /\ NotStarted
    /\ call_arg \in Descriptions
    /\ call_result = <<>>
    /\ call_done = FALSE

\* the lines process_article writes before the AI call, for an article
\* whose description is call_arg
WriteBlock ==
    /\ pc = "describe"
    /\ ~call_done
    /\ call_result' = BlockLines([url |-> "u1", title |-> TitlePlain,
                                  description |-> call_arg,
                                  matched_keywords |-> <<>>,
                                  ticker |-> Brasil])
    /\ call_done' = TRUE
    /\ UNCHANGED <<prog, ctl, scan, articles, clock, sink, outcome,
                   seen_before, hist, kw, call_arg, slept>>

NextDesc == WriteBlock

SpecDesc == InitDesc /\ [][NextDesc]_vars

(***************************************************************************)
(* Vocabulary of the properties.                                           *)
(***************************************************************************)
\* keyword occurs in text at position i, letter by letter, ignoring case
OccursAt(keyword, text, i) ==
    /\ i + Len(keyword) - 1 <= Len(text)
    /\ \A j \in 1..Len(keyword) :
           LowerChar(text[i + j - 1]) = LowerChar(keyword[j])

Occurs(keyword, text) == \E i \in 1..Len(text) : OccursAt(keyword, text, i)

\* title+description of a raw article holds at least one configured keyword
RawHasKeyword(a) ==
    \E k \in 1..Len(price_moving_keywords) :
        Occurs(price_moving_keywords[k], ArticleText(a))

NoDuplicates(seq) ==
    \A i, j \in 1..Len(seq) : seq[i] = seq[j] => i = j

RECURSIVE IsSubseq(_, _)
\* s is t with some elements left out, the order kept
IsSubseq(s, t) ==
    IF s = <<>> THEN TRUE
    ELSE IF t = <<>> THEN FALSE
    ELSE IF Head(s) = Head(t) THEN IsSubseq(Tail(s), Tail(t))
    ELSE IsSubseq(s, Tail(t))

\* what identifies an article: the fields copied from the raw article
Identity(seq) ==
    [i \in 1..Len(seq) |->
        [url |-> seq[i].url, title |-> seq[i].title,
         description |-> seq[i].description]]

CycleOver == pc \in {"run_pending", "sleep"}

\* C1: no URL is returned by fetch_news_for_ticker, and none is handed to
\* process_article, more than once in the process lifetime: not across
\* cycles, not inside one response, not for two tickers of one cycle.
C1_AtMostOnce ==
    /\ NoDuplicates(returned)
    /\ NoDuplicates(UrlsOf(handed))
    /\ NoDuplicates(UrlsOf(news_articles))
    /\ pc = "scan" =>
           \A i \in 1..Len(news_articles) :
               news_articles[i].url \notin Range(returned)

\* C1: in a later cycle the response holds a URL returned before, and the
\* scan has passed over it
C1_Witness ==
    /\ pc = "scan"
    /\ Len(starts) >= 2
    /\ si > 1
    /\ resp[si - 1].url \in Range(returned)

\* C2: an article whose title+description holds no configured keyword
\* (ignoring case) is never returned and its URL is never added to
\* processed_articles; every article handed on has matched keywords.
C2_NoKeywordNoEmission ==
    /\ \A i \in 1..Len(news_articles) :
           /\ news_articles[i].matched_keywords # <<>>
           /\ RawHasKeyword(news_articles[i])
    /\ \A i \in 1..Len(articles) :
           /\ articles[i].matched_keywords # <<>>
           /\ RawHasKeyword(articles[i])
    /\ pc \in {"scan", "process"} =>
           \A u \in processed_articles \ seen_before :
               \E k \in 1..Len(resp) :
                   resp[k].url = u /\ RawHasKeyword(resp[k])

\* C2: in a later cycle an article without keyword was scanned and its URL
\* is still not in processed_articles
C2_Witness ==
    /\ pc = "scan"
    /\ variant = "stock_news_monitor"
    /\ Len(starts) >= 2
    /\ si > 1
    /\ resp[si - 1].url # NoKey
    /\ ~RawHasKeyword(resp[si - 1])
    /\ resp[si - 1].url \notin processed_articles

\* every entry of the response carries the 'url' key
WellFormed(response) == \A k \in 1..Len(response) : response[k].url # NoKey

\* C3: in both variants, when the API call returned (a well-formed
\* response), every raw article with a new URL and a keyword match is in the
\* returned list, its URL is in processed_articles, and by the end of the
\* cycle it was passed to process_article.
C3_MatchingLoggedOnce ==
    /\ (pc = "process" /\ outcome # "api_raise" /\ WellFormed(resp)) =>
           \A k \in 1..Len(resp) :
               (/\ resp[k].url # NoKey
                /\ resp[k].url \notin seen_before
                /\ RawHasKeyword(resp[k]))
               => /\ resp[k].url \in Range(UrlsOf(articles))
                  /\ resp[k].url \in processed_articles
    /\ CycleOver => UrlsOf(handed) = returned

\* C4: an API call that raises yields the empty list, nothing escapes
\* check_news, no ticker is fetched twice in a cycle, and the cycle fetches
\* every ticker of the list.
C4_ApiFailureContained ==
    /\ outcome = "api_raise" => articles = <<>>
    /\ pc = "crashed" => interrupted
    /\ NoDuplicates([k \in 1..Len(fetched) |-> fetched[k].ti])
    /\ (CycleOver /\ ended > 0) => Len(fetched) = Len(tickers)

\* C4: the call for the first ticker raised and the second ticker was fetched
C4_Witness ==
    /\ Len(fetched) = 2
    /\ fetched[1].api = "raise"

\* C5: at the end of a fetch processed_articles holds only URLs that a fetch
\* returned, and a fetch that failed left processed_articles as it was.
C5_SeenOnlyEmitted ==
    /\ pc = "process" => processed_articles \subseteq Range(returned)
    /\ (pc = "process" /\ outcome \in {"api_raise", "malformed", "type_error"})
           => processed_articles = seen_before

\* C6: when the AI call raises, process_article logs the error and writes
\* the closing separator and no summary line; when it returns, the summary
\* line and no closing separator. Nothing escapes, and the cycle goes on to
\* the remaining articles and tickers.
C6_AiFailureContained ==
    /\ \A k \in 1..Len(handed) :
           LET kinds == {sink[i].kind :
                           i \in {j \in 1..Len(sink) :
                                     sink[j].url = handed[k].url}}
           IN IF handed[k].ai_raised
              THEN /\ {"ai_error", "closing_separator"} \subseteq kinds
                   /\ "ai_summary" \notin kinds
              ELSE /\ "ai_summary" \in kinds
                   /\ "closing_separator" \notin kinds
                   /\ "ai_error" \notin kinds
    /\ pc = "crashed" => interrupted
    /\ CycleOver => UrlsOf(handed) = returned

\* C6: the AI call raised for the first article of the initial cycle, the
\* second article was processed and the cycle ran to its end
C6_Witness ==
    /\ pc = "run_pending"
    /\ Len(starts) = 1
    /\ Len(handed) = 2
    /\ handed[1].ai_raised

KeywordIndex(keyword) ==
    CHOOSE k \in 1..Len(price_moving_keywords) :
        price_moving_keywords[k] = keyword

\* C7: _extract_matched_keywords returns exactly the configured keywords
\* that occur in the text ignoring case, in configured order, each once.
C7_ExtractExact ==
    kw_done =>
        /\ \A k \in 1..Len(price_moving_keywords) :
               (price_moving_keywords[k] \in Range(kw_matched))
               <=> Occurs(price_moving_keywords[k], kw_text)
        /\ Range(kw_matched) \subseteq Range(price_moving_keywords)
        /\ \A i, j \in 1..Len(kw_matched) :
               i < j => KeywordIndex(kw_matched[i]) < KeywordIndex(kw_matched[j])

\* C7: the text "B ab": the second keyword occurs twice and before the
\* first one, in the other case; the result is in configured order
C7_Witness ==
    /\ kw_done
    /\ kw_text = <<"B", " ", "a", "b">>
    /\ kw_matched = price_moving_keywords

\* C8: the banner comes first, the initial cycle starts at once and ends
\* before any sleep; a later cycle starts no sooner than refresh_interval
\* seconds after the start of the one before; cycles do not overlap.
C8_SchedulerTiming ==
    /\ sink # <<>> => sink[1].kind = "startup"
    /\ starts # <<>> => (sink # <<>> /\ starts[1] = 0)
    /\ pc = "sleep" => ended >= 1
    /\ ~in_try => Len(starts) <= 1
    /\ \A k \in 2..Len(starts) : starts[k] - starts[k - 1] >= refresh_interval
    /\ Len(starts) <= ended + 1

\* C8: the second cycle has started, refresh_interval seconds after the first
C8_Witness ==
    /\ Len(starts) = 2
    /\ starts[2] = refresh_interval
    /\ pc = "fetch"

\* C9: the monitor stops only on an interrupt, and every interrupt after
\* start_monitoring has begun ends in the shutdown banner and a normal return.
C9_StopOnInterrupt ==
    /\ pc \in {"stopped", "crashed"} => interrupted
    /\ interrupted => (pc = "stopped" /\ sink[Len(sink)].kind = "shutdown")

\* C10: tickers are fetched in list order; the articles of a ticker are all
\* processed before the next fetch starts, in the order the API returned
\* them; the returned list is the response with articles left out.
C10_Ordering ==
    /\ \A k \in 1..Len(fetched) : fetched[k].ti = k
    /\ pc = "fetch" => (Len(fetched) = ti - 1 /\ UrlsOf(handed) = returned)
    /\ Len(handed) <= Len(returned)
    /\ UrlsOf(handed) = SubSeq(returned, 1, Len(handed))
    /\ pc = "scan" =>
           IsSubseq(Identity(news_articles), Identity(SubSeq(resp, 1, si - 1)))
    /\ (pc = "process" /\ outcome = "returned") =>
           /\ IsSubseq(Identity(articles), Identity(resp))
           /\ \A j \in 1..(pi - 1) :
                  handed[Len(handed) - (pi - 1) + j].url = articles[j].url

\* C10: two articles of one fetch have been processed
C10_Witness ==
    /\ pc = "process"
    /\ outcome = "returned"
    /\ Len(articles) = 2
    /\ pi = 3


StartsWith(q, piece) ==
    /\ Len(piece) <= Len(q)
    /\ \A i \in 1..Len(piece) : q[i] = piece[i]

RECURSIVE EatAll(_, _)
\* q is the pieces one after the other and nothing else
EatAll(q, pieces) ==
    IF pieces = <<>> THEN q = <<>>
    ELSE /\ StartsWith(q, Head(pieces))
         /\ EatAll(SubSeq(q, Len(Head(pieces)) + 1, Len(q)), Tail(pieces))

QuoteChar == <<"\"">>

\* the second parenthesis, piece by piece: "kw1" OR "kw2" OR ... "kwn")
KeywordPieces ==
    LET n == Len(price_moving_keywords) IN
    [j \in 1..(4 * n) |->
        IF j % 4 = 1 THEN QuoteChar
        ELSE IF j % 4 = 2 THEN price_moving_keywords[(j + 2) \div 4]
        ELSE IF j % 4 = 3 THEN QuoteChar
        ELSE IF j = 4 * n THEN <<")">>
        ELSE <<" ", "O", "R", " ">>]

\* C12: _build_search_query(ticker) is ("TICKER" OR "alias") AND ("kw1" OR
\* "kw2" OR ...), every keyword once, quoted, in configured order; the alias
\* is the one registered in ticker_to_company, or the ticker when none is.
C12_QueryShape ==
    (pc = "query" /\ call_done) =>
        LET alias == IF call_arg \in DOMAIN ticker_to_company
                     THEN ticker_to_company[call_arg]
                     ELSE call_arg
        IN /\ EatAll(call_result,
                     <<<<"(">>, QuoteChar, call_arg, QuoteChar,
                       <<" ", "O", "R", " ">>, QuoteChar, alias, QuoteChar,
                       <<")", " ", "A", "N", "D", " ", "(">>>>
                     \o KeywordPieces)
           /\ Cardinality({i \in 1..Len(call_result) : call_result[i] = "\""})
                  = 2 * (2 + Len(price_moving_keywords))
           /\ (variant = "backtest" /\ call_arg = ADM /\ ADM \in Range(tickers))
                  => alias = ArcherDanielsMidland
           /\ (variant = "stock_news_monitor" /\ call_arg = Brasil)
                  => alias = ComercioDeSoja
           /\ (variant = "stock_news_monitor" /\ call_arg # Brasil)
                  => alias = call_arg

\* C12: the query of a configured ticker with a registered company name
C12_Witness ==
    /\ pc = "query"
    /\ call_done
    /\ variant = "backtest"
    /\ call_arg = ADM
    /\ ADM \in Range(tickers)
    /\ Len(call_result) > Len(ArcherDanielsMidland)


\* C13: a description longer than 200 characters is logged as its first 200
\* characters and "..."; one of 1 to 200 characters unchanged; an empty or
\* absent one gives no description line.
C13_Truncation ==
    (pc = "describe" /\ call_done) =>
        LET at == {i \in 1..Len(call_result) :
                      call_result[i].kind = "description"}
            n == Len(call_arg)
        IN /\ n = 0 => at = {}
           /\ n >= 1 => Cardinality(at) = 1
           /\ \A i \in at :
                  LET text == call_result[i].text IN
                  /\ n <= 200 => text = call_arg
                  /\ n > 200 =>
                         /\ Len(text) = 203
                         /\ \A j \in 1..200 : text[j] = call_arg[j]
                         /\ \A j \in 201..203 : text[j] = "."

\* C13: a description of DescLimit + MaxOver characters was cut
C13_Witness ==
    /\ pc = "describe"
    /\ call_done
    /\ Len(call_arg) = DescLimit + MaxOver
    /\ \E i \in 1..Len(call_result) :
           /\ call_result[i].kind = "description"
           /\ Len(call_result[i].text) = DescLimit + 3


\* C17: processed_articles starts empty, no step removes a URL from it, and
\* only a step of fetch_news_for_ticker's loop changes it.
C17_SeenMonotonic ==
    /\ processed_articles = {}
    /\ [][/\ processed_articles \subseteq processed_articles'
          /\ processed_articles' # processed_articles
                 => (pc = "scan" /\ pc' = "scan")]_vars

\* C17: the set has grown in two different cycles
C17_Witness ==
    /\ Len(starts) >= 2
    /\ seen_before # {}
    /\ processed_articles # seen_before
    /\ seen_before \subseteq processed_articles


\* a cycle has started and not ended
InCycle == Len(starts) = ended + 1

\* C16 as stated: after any cycle, the initial one included, the next cycle
\* starts only after at least one sleep tick.
C16_SleepBetweenCycles == (InCycle /\ ended >= 1) => slept

\* C16 amended: after a scheduled cycle the next cycle starts only after at
\* least one sleep tick; the cycle after the initial one starts with no sleep
\* in between only when the initial cycle took refresh_interval or longer.
C16_SleepAfterScheduled ==
    /\ (InCycle /\ ended >= 2) => slept
    /\ (InCycle /\ ended = 1 /\ ~slept) =>
           starts[2] - starts[1] >= refresh_interval

\* C16: a third cycle is running, after a sleep
C16_Witness ==
    /\ InCycle
    /\ ended >= 2
    /\ slept
    /\ pc = "fetch"


\* C14 as stated: an interrupt does not preempt a fetch: when it has taken
\* effect, no fetch is left unfinished.
C14_FetchNotPreempted == interrupted => outcome # "scanning"

\* C14 amended: an interrupt takes effect at once, also in the middle of a
\* fetch: the fetch returns nothing, its articles are neither returned nor
\* processed, and the URLs it had recorded stay in processed_articles.
C14_FetchPreempted ==
    /\ interrupted => pc \in {"stopped", "crashed"}
    /\ (interrupted /\ outcome = "scanning") =>
           /\ articles = <<>>
           /\ \A i \in 1..Len(news_articles) :
                  /\ news_articles[i].url \in processed_articles
                  /\ news_articles[i].url \notin Range(returned)
                  /\ news_articles[i].url \notin Range(UrlsOf(handed))

\* C14: the interrupt came in the middle of a fetch that had kept an article
C14_Witness ==
    /\ interrupted
    /\ outcome = "scanning"
    /\ news_articles # <<>>


HasShutdown == \E i \in 1..Len(sink) : sink[i].kind = "shutdown"

\* C15: an exception raised in a cycle outside the fetch and outside the AI
\* call escapes check_news and start_monitoring: the monitor does not stop
\* normally, the shutdown banner is written for an interrupt only, and after
\* the escape no cycle starts and nothing is written.
C15_UnguardedFatal ==
    /\ [](/\ pc = "escaped" => (~HasShutdown /\ ~interrupted)
          /\ pc = "stopped" => interrupted
          /\ HasShutdown => interrupted)
    /\ [][pc = "escaped" =>
              (pc' = "escaped" /\ starts' = starts /\ sink' = sink
               /\ fetched' = fetched /\ handed' = handed)]_vars

\* C15: the exception was raised in a scheduled cycle, inside the try
\* block of start_monitoring, while an article block was being written
C15_Witness ==
    /\ pc = "escaped"
    /\ in_try
    /\ pi <= Len(articles)


\* C11: without an interrupt, every cycle that starts comes to its end,
\* having fetched every configured ticker once, in order, and handed no
\* article twice; and a cycle starts again and again, for ever.
C11_Continuous ==
    ([]~interrupted) =>
        /\ (pc = "check_news") ~> CycleOver
        /\ []<>(pc = "check_news")
        /\ [](CycleOver =>
                 /\ Len(fetched) = Len(tickers)
                 /\ \A i \in 1..Len(fetched) : fetched[i].ti = i
                 /\ NoDuplicates(UrlsOf(handed)))

\* C11: the initial cycle and a scheduled cycle have run, and the job is due
\* once more
C11_Witness ==
    /\ pc = "check_news"
    /\ in_try
    /\ Len(starts) >= 2
    /\ ~interrupted

====
